---- MODULE Spec2Model ----
(***************************************************************************)
(* Model of pm25_weather_analysis.py: the live fetch probe, the synthetic  *)
(* series generator, the summary statistics and the run of main.           *)
(*                                                                         *)
(* Floating-point signals are fixed-point integers in tenths; the          *)
(* seeded pseudo-random draws are inputs chosen from NoiseSet; a date is   *)
(* the ordinal of its day (day 0 = 1 January of a non-leap year), the time *)
(* of day, equal on every row, is left out.                                *)
(***************************************************************************)
EXTENDS Integers, Sequences, FiniteSets, TLC

VARIABLES
    pc,         \* where the program is
    today,      \* the day datetime.now() reads
    resp,       \* the outcome of the HTTP request, once made
    requests,   \* number of HTTP requests made
    real_data,  \* what fetch_air_quality_data returned
    log,        \* the lines printed, by kind
    n_days,     \* the argument of create_sample_dataset
    df,         \* the data frame
    df_before,  \* the data frame as it was handed to the analysis first
    returned,   \* what the calls of analyze_air_quality_weather returned
    fig,        \* number of plots drawn
    csv,        \* the file written by to_csv
    raised      \* the exception that ended the program ("none": none)

vars == <<pc, today, resp, requests, real_data, log, n_days, df, df_before,
          returned, fig, csv, raised>>

----------------------------------------------------------------------------
(* Bounds of the model *)

\* largest n_days passed to create_sample_dataset when it is called directly
MaxDays == 3
\* n_days ranges down to -MaxNeg when create_sample_dataset is called directly
MaxNeg == 2
\* main asks for 365 days (line 182); the model runs main with MainDays days
MainDays == 2
\* longest series handed to analyze_air_quality_weather when called directly
MaxRows == 3
\* analyze_air_quality_weather is called at most MaxCalls times on one series
MaxCalls == 2

----------------------------------------------------------------------------
(* Generic helpers *)

Range(s) == {s[i] : i \in 1..Len(s)}

Abs(x) == IF x < 0 THEN -x ELSE x

RECURSIVE GCD(_, _)
GCD(a, b) == IF b = 0 THEN Abs(a) ELSE GCD(b, a % b)

RECURSIVE SumSeq(_)
SumSeq(s) == IF s = <<>> THEN 0 ELSE Head(s) + SumSeq(Tail(s))

----------------------------------------------------------------------------
(* JSON values and the HTTP outcomes of requests.get *)

Absent == [type |-> "absent"]
NoneVal == [type |-> "none"]
Str(s) == [type |-> "string", value |-> s]
Num(n) == [type |-> "number", value |-> n]
Arr(n) == [type |-> "array", len |-> n]
EmptyDict == [type |-> "object", city |-> Absent, aqi |-> Absent]
CityObj(name) == [type |-> "object", name |-> name]
DataObj(city, aqi) == [type |-> "object", city |-> city, aqi |-> aqi]
Body(status, data, message) ==
    [type |-> "object", status |-> status, data |-> data, message |-> message]
NotJson == [type |-> "notjson"]

\* values of the "data" member of a response whose status is "ok"
DataValues ==
    { Absent, NoneVal, EmptyDict, Arr(0), Arr(1), Str("paris"), Num(0),
      DataObj(CityObj(Str("Paris")), Num(42)),
      DataObj(CityObj(Absent), Absent),
      DataObj(Absent, Num(42)),
      DataObj(NoneVal, Num(42)),
      DataObj(Str("Paris"), Num(42)),
      DataObj(Arr(1), Absent) }

Bodies ==
    { NotJson, Arr(0), Arr(1), NoneVal, Str("ok") }
    \cup { Body(Str("ok"), d, Absent) : d \in DataValues }
    \cup { Body(Str("error"), Absent, Str("Invalid key")),
           Body(Str("error"), DataObj(Absent, Num(42)), Absent),
           Body(Absent, DataObj(Absent, Num(42)), Absent),
           Body(NoneVal, Str("paris"), Absent) }

NoResp == [kind |-> "none"]

HttpOutcomes ==
    { [kind |-> "exception"] }
    \cup { [kind |-> "response", status_code |-> 200, body |-> b] : b \in Bodies }
    \cup { [kind |-> "response", status_code |-> c, body |-> b] :
             c \in {404, 500}, b \in {NotJson, Body(Str("ok"), DataObj(Absent, Num(42)), Absent)} }

\* an object with members is the only value with a get method
HasGet(v) == v.type = "object"

\* dict.get(key, default)
Get(v, key, default) ==
    IF key \in DOMAIN v /\ v[key] # Absent THEN v[key] ELSE default

\* Python truth value of a value
Truthy(v) ==
    CASE v.type = "none" -> FALSE
      [] v.type = "object" -> \E k \in DOMAIN v \ {"type"} : v[k] # Absent
      [] v.type = "array" -> v.len > 0
      [] v.type = "string" -> v.value # ""
      [] v.type = "number" -> v.value # 0
      [] OTHER -> FALSE

----------------------------------------------------------------------------
(* fetch_air_quality_data *)

\* a fetch that lets the payload of a 200 response through whatever its
\* status field says
FetchLenient(r) ==
    IF r.kind = "exception"
    THEN [result |-> NoneVal, log |-> <<"fetching", "request_failed">>, requests |-> 1, raised |-> "none"]
    ELSE IF r.status_code = 200
    THEN IF r.body.type = "notjson" \/ ~HasGet(r.body)
         THEN [result |-> NoneVal, log |-> <<"fetching", "request_failed">>, requests |-> 1, raised |-> "none"]
         ELSE [result |-> Get(r.body, "data", EmptyDict), log |-> <<"fetching">>, requests |-> 1, raised |-> "none"]
    ELSE [result |-> NoneVal, log |-> <<"fetching", "http_error">>, requests |-> 1, raised |-> "none"]

\* what one call makes of the outcome r of requests.get: the value returned,
\* the lines printed, the number of requests made and the exception that
\* escapes ("none": none)
fetch_air_quality_data(r) ==
    IF r.kind = "exception"
    THEN [result |-> NoneVal, log |-> <<"fetching", "request_failed">>, requests |-> 1, raised |-> "none"]
    ELSE IF r.status_code = 200
    THEN IF r.body.type = "notjson" \/ ~HasGet(r.body)
         \* resp.json() or data.get raises inside the try block
         THEN [result |-> NoneVal, log |-> <<"fetching", "request_failed">>, requests |-> 1, raised |-> "none"]
         ELSE IF Get(r.body, "status", NoneVal) = Str("ok")
         THEN [result |-> Get(r.body, "data", EmptyDict), log |-> <<"fetching">>, requests |-> 1, raised |-> "none"]
         ELSE [result |-> NoneVal, log |-> <<"fetching", "api_error">>, requests |-> 1, raised |-> "none"]
    ELSE [result |-> NoneVal, log |-> <<"fetching", "http_error">>, requests |-> 1, raised |-> "none"]

----------------------------------------------------------------------------
(* Dates *)

\* days of a non-leap year before the first day of each month
DaysBefore == <<0, 31, 59, 90, 120, 151, 181, 212, 243, 273, 304, 334>>

\* the .dt.month of the date whose ordinal is d
Month(d) == Cardinality({m \in 1..12 : DaysBefore[m] <= d % 365})

\* the values datetime.now() takes in the model: 1 January, 2 February,
\* 1 March and 20 July of the second year
Todays == {365, 365 + 32, 365 + 59, 365 + 200}

\* pd.date_range(start, end, freq='D'): start, start + 1 day, ... up to end
DateRange(start, end) ==
    [i \in 1..(IF end >= start THEN end - start + 1 ELSE 0) |-> start + (i - 1)]

----------------------------------------------------------------------------
(* create_sample_dataset *)

\* period of the seasonal sinusoids, in days
Period == 365

\* 100 * sin of the angle a, a in units of 1/(8 * Period) of a turn, by
\* Bhaskara's rational approximation 16 p / (5 H^2 - 4 p), p = a (H - a), on
\* the half turn H
RECURSIVE SinPct(_)
SinPct(a) ==
    LET H == 4 * Period
        p == a * (H - a)
    IN  IF a <= H THEN (1600 * p) \div (5 * H * H - 4 * p)
                  ELSE -SinPct(a - H)

\* the angle 2 pi i / 365 plus the phase, in units of 1/(8 * Period) of a turn
\* (the phase pi / 4 is Period units)
Angle(i, phase) == (8 * i + phase) % (8 * Period)

\* np.clip without its lower bound
ClipUpper(x, lo, hi) == IF x > hi THEN hi ELSE x

\* np.clip(x, lo, hi)
Clip(x, lo, hi) == IF x < lo THEN lo ELSE IF x > hi THEN hi ELSE x

\* one draw of the four noise terms of a row, in tenths: Normal(0, 8),
\* Normal(0, 5), Normal(0, 10) and Exponential(1) (never negative)
NoiseSet ==
    { [pm25 |-> -400, temperature |-> -250, humidity |-> 400, wind_speed |-> 0],
      [pm25 |-> 0,    temperature |-> 0,    humidity |-> 0,   wind_speed |-> 10],
      [pm25 |-> 700,  temperature |-> 300,  humidity |-> -450, wind_speed |-> 95],
      [pm25 |-> 37,   temperature |-> -21,  humidity |-> 64,  wind_speed |-> 3] }

\* 25 + 10 sin(2 pi i / 365), in tenths
base_pm25(i) == 250 + (100 * SinPct(Angle(i, 0))) \div 100

\* 12 + 15 sin(2 pi i / 365), in tenths
base_temp(i) == 120 + (150 * SinPct(Angle(i, 0))) \div 100

\* 3 + 2 sin(2 pi i / 365 + pi / 4), in tenths
base_wind(i) == 30 + (20 * SinPct(Angle(i, Period))) \div 100

\* temperature of row i (index i - 1) under the noise z
Temperature(i, z) == base_temp(i - 1) + z[i].temperature

\* 70 - 0.5 * temperature + Normal(0, 10), clipped to [30, 95], in tenths
Humidity(i, z) == Clip(700 - Temperature(i, z) \div 2 + z[i].humidity, 300, 950)

ColumnNames == <<"date", "pm25", "temperature", "humidity", "wind_speed">>

\* pd.DataFrame of the columns cols (a sequence of names) holding data
DataFrame(cols, data) == [columns |-> cols, data |-> data]

\* len(df)
NRows(frame) == IF frame.columns = <<>> THEN 0 ELSE Len(frame.data[frame.columns[1]])

\* a date range that leaves out its last day
DatesFromStart(n, now) == DateRange(now - n, now - 1)

\* the dates of create_sample_dataset(n) called on the day now
Dates(n, now) == DateRange(now - n, now)

\* create_sample_dataset(n) called on the day now, z the noise drawn for the
\* rows: the frame returned and the exception raised ("none": none)
create_sample_dataset(n, now, z) ==
    LET dates == Dates(n, now)
        n_samples == Len(dates)
        rows == 1..n_samples
        data == [c \in Range(ColumnNames) |->
                   CASE c = "date" -> dates
                     [] c = "pm25" ->
                          [i \in rows |-> Clip(base_pm25(i - 1) + z[i].pm25, 50, 800)]
                     [] c = "temperature" -> [i \in rows |-> Temperature(i, z)]
                     [] c = "humidity" -> [i \in rows |-> Humidity(i, z)]
                     [] c = "wind_speed" ->
                          [i \in rows |-> Clip(base_wind(i - 1) + z[i].wind_speed, 5, 120)]]
    IN  [result |-> DataFrame(ColumnNames, data), raised |-> "none"]

\* the noise vectors that can be drawn for create_sample_dataset(n)
Noises(n, now) == [1..Len(Dates(n, now)) -> NoiseSet]

----------------------------------------------------------------------------
(* analyze_air_quality_weather *)

correlation_cols == <<"pm25", "temperature", "humidity", "wind_speed">>

NaN == [nan |-> TRUE]

\* every numeric column of frame instead of the columns cols
SelectNumeric(frame, cols) ==
    LET keep == SelectSeq(frame.columns, LAMBDA c : c # "date")
    IN  DataFrame(keep, [c \in Range(keep) |-> frame.data[c]])

\* df[cols]: the frame of the columns cols of frame
Select(frame, cols) == DataFrame(cols, [c \in Range(cols) |-> frame.data[c]])

\* Pearson's r of the columns x and y, as cov / sqrt(lo * hi) with the three
\* numbers divided by their common divisor; NaN when a variance is zero
Pearson(x, y) ==
    LET n == Len(x)
        sx == SumSeq(x)
        sy == SumSeq(y)
        sxy == SumSeq([i \in 1..n |-> x[i] * y[i]])
        sxx == SumSeq([i \in 1..n |-> x[i] * x[i]])
        syy == SumSeq([i \in 1..n |-> y[i] * y[i]])
        cov == n * sxy - sx * sy
        vx == n * sxx - sx * sx
        vy == n * syy - sy * sy
        g == GCD(cov, GCD(vx, vy))
        lo == IF vx <= vy THEN vx ELSE vy
        hi == IF vx <= vy THEN vy ELSE vx
    IN  IF vx = 0 \/ vy = 0 THEN NaN
        ELSE [nan |-> FALSE, cov |-> cov \div g, lo |-> lo \div g, hi |-> hi \div g]

\* DataFrame.corr(): the correlation of every pair of columns of frame
Corr(frame) ==
    [labels |-> frame.columns,
     values |-> [a \in Range(frame.columns), b \in Range(frame.columns) |->
                   Pearson(frame.data[a], frame.data[b])]]

\* df[c] = v: the column c is replaced, or added after the last column
SetColumn(frame, c, v) ==
    DataFrame(IF c \in Range(frame.columns) THEN frame.columns
                                             ELSE Append(frame.columns, c),
              [k \in Range(frame.columns) \cup {c} |->
                 IF k = c THEN v ELSE frame.data[k]])

\* the distinct values of keys in the order of their first appearance
RECURSIVE FirstSeen(_)
FirstSeen(keys) ==
    IF keys = <<>> THEN <<>>
    ELSE LET front == SubSeq(keys, 1, Len(keys) - 1)
             seen == FirstSeen(front)
         IN  IF keys[Len(keys)] \in Range(front) THEN seen
             ELSE Append(seen, keys[Len(keys)])

\* the elements of the set S of numbers, ascending
RECURSIVE SortedSet(_)
SortedSet(S) ==
    IF S = {} THEN <<>>
    ELSE LET m == CHOOSE x \in S : \A y \in S : x <= y
         IN  <<m>> \o SortedSet(S \ {m})

\* the group keys of groupby: the distinct values of keys, ascending
GroupKeys(keys) == SortedSet(Range(keys))

\* the mean of the values s (not empty), as a fraction in lowest terms
Mean(s) ==
    LET g == GCD(SumSeq(s), Len(s))
    IN  [num |-> SumSeq(s) \div g, den |-> Len(s) \div g]

\* df.groupby(by)[col].mean()
GroupByMean(frame, by, col) ==
    LET index == GroupKeys(frame.data[by])
        group(k) == SelectSeq([i \in 1..NRows(frame) |-> i],
                              LAMBDA i : frame.data[by][i] = k)
    IN  [index |-> index,
         values |-> [j \in 1..Len(index) |->
                       Mean([i \in 1..Len(group(index[j])) |->
                               frame.data[col][group(index[j])[i]]])]]

\* analyze_air_quality_weather(frame): the pair returned, the frame as the
\* call leaves it and the exception raised ("none": none)
analyze_air_quality_weather(frame) ==
    LET correlation == Corr(Select(frame, correlation_cols))
        with_month == SetColumn(frame, "month",
                                [i \in 1..NRows(frame) |-> Month(frame.data["date"][i])])
        monthly_pm25 == GroupByMean(with_month, "month", "pm25")
    IN  [correlation |-> correlation, monthly_pm25 |-> monthly_pm25,
         df |-> with_month, raised |-> "none"]

----------------------------------------------------------------------------
(* df.to_csv(path, index=False): the header and one line of cells per row *)

to_csv(frame) ==
    [header |-> frame.columns,
     rows |-> [i \in 1..NRows(frame) |->
                 [c \in 1..Len(frame.columns) |-> frame.data[frame.columns[c]][i]]]]

----------------------------------------------------------------------------
(* The run of main *)

NoDf == DataFrame(<<>>, [c \in {} |-> <<>>])
NoFile == [header |-> <<>>, rows |-> <<>>]

InitCommon ==
    /\ today \in Todays
    /\ resp = NoResp
    /\ requests = 0
    /\ real_data = NoneVal
    /\ log = <<>>
    /\ returned = <<>>
    /\ fig = 0
    /\ csv = NoFile
    /\ raised = "none"

Init ==
    /\ InitCommon
    /\ pc = "main"
    /\ n_days = 0
    /\ df = NoDf
    /\ df_before = NoDf

\* real_data = fetch_air_quality_data("paris")
MainFetch ==
    /\ pc = "main"
    /\ \E r \in HttpOutcomes :
         LET f == fetch_air_quality_data(r)
         IN  /\ resp' = r
             /\ requests' = requests + f.requests
             /\ real_data' = f.result
             /\ log' = log \o <<"banner">> \o f.log
             /\ raised' = f.raised
             /\ pc' = IF f.raised = "none" THEN "report" ELSE "raised"
    /\ UNCHANGED <<today, n_days, df, df_before, returned, fig, csv>>

\* if real_data: print the station and the current index
MainReport ==
    /\ pc = "report"
    /\ IF Truthy(real_data)
       THEN IF HasGet(real_data) /\ HasGet(Get(real_data, "city", EmptyDict))
            THEN /\ log' = log \o <<"fetched", "station", "aqi", "note">>
                 /\ raised' = "none"
                 /\ pc' = "generate"
            ELSE \* real_data.get or real_data.get('city', {}).get does not exist
                 /\ log' = Append(log, "fetched")
                 /\ raised' = "AttributeError"
                 /\ pc' = "raised"
       ELSE /\ pc' = "generate"
            /\ UNCHANGED <<log, raised>>
    /\ UNCHANGED <<today, resp, requests, real_data, n_days, df, df_before,
                   returned, fig, csv>>

\* df = create_sample_dataset(365), and the two lines printed about it
MainGenerate ==
    /\ pc = "generate"
    /\ \E z \in Noises(MainDays, today) :
         LET g == create_sample_dataset(MainDays, today, z)
         IN  /\ n_days' = MainDays
             /\ df' = g.result
             /\ df_before' = g.result
             /\ raised' = g.raised
             /\ log' = log \o <<"creating", "created", "date_range">>
             /\ pc' = IF g.raised = "none" THEN "analyze" ELSE "raised"
    /\ UNCHANGED <<today, resp, requests, real_data, returned, fig, csv>>

\* correlation, monthly_pm25 = analyze_air_quality_weather(df)
MainAnalyze ==
    /\ pc = "analyze"
    /\ LET a == analyze_air_quality_weather(df)
       IN  /\ df' = a.df
           /\ returned' = Append(returned, [correlation |-> a.correlation,
                                            monthly_pm25 |-> a.monthly_pm25])
           /\ raised' = a.raised
           /\ pc' = IF a.raised = "none" THEN "visualize" ELSE "raised"
    /\ log' = Append(log, "analysis")
    /\ UNCHANGED <<today, resp, requests, real_data, n_days, df_before, fig, csv>>

\* fig = create_visualizations(df, correlation, monthly_pm25): six plots
MainVisualize ==
    /\ pc = "visualize"
    /\ fig' = 6
    /\ log' = Append(log, "visualizations")
    /\ pc' = "export"
    /\ UNCHANGED <<today, resp, requests, real_data, n_days, df, df_before,
                   returned, csv, raised>>

\* the findings are printed and df.to_csv('air_quality_analysis.csv',
\* index=False) writes the file (the write itself is taken to succeed)
MainExport ==
    /\ pc = "export"
    /\ csv' = to_csv(df)
    /\ log' = log \o <<"results", "saved">>
    /\ pc' = "done"
    /\ UNCHANGED <<today, resp, requests, real_data, n_days, df, df_before,
                   returned, fig, raised>>

Next ==
    \/ MainFetch
    \/ MainReport
    \/ MainGenerate
    \/ MainAnalyze
    \/ MainVisualize
    \/ MainExport

Spec == Init /\ [][Next]_vars

----------------------------------------------------------------------------
(* create_sample_dataset called on its own *)

InitGenerate ==
    /\ InitCommon
    /\ pc = "call_generate"
    /\ n_days \in (0 - MaxNeg)..MaxDays
    /\ df = NoDf
    /\ df_before = NoDf

CallGenerate ==
    /\ pc = "call_generate"
    /\ \E z \in Noises(n_days, today) :
         LET g == create_sample_dataset(n_days, today, z)
         IN  /\ df' = g.result
             /\ raised' = g.raised
             /\ pc' = IF g.raised = "none" THEN "returned" ELSE "raised"
    /\ log' = Append(log, "creating")
    /\ UNCHANGED <<today, resp, requests, real_data, n_days, df_before,
                   returned, fig, csv>>

NextGenerate == CallGenerate

SpecGenerate == InitGenerate /\ [][NextGenerate]_vars

----------------------------------------------------------------------------
(* analyze_air_quality_weather called on its own, up to MaxCalls times on *)
(* the same frame                                                          *)

\* the signals of one observation, in tenths
RowSet ==
    { [pm25 |-> 50,  temperature |-> 120, humidity |-> 640, wind_speed |-> 44],
      [pm25 |-> 253, temperature |-> 31,  humidity |-> 950, wind_speed |-> 5],
      [pm25 |-> 800, temperature |-> -87, humidity |-> 300, wind_speed |-> 120] }

\* first days of the series: 31 December, 31 January, 28 February, 20 July
Starts == {364, 30, 58, 200}

\* the series of the observations rows on consecutive days from start
Series(start, rows) ==
    DataFrame(ColumnNames,
              [c \in Range(ColumnNames) |->
                 IF c = "date" THEN [i \in 1..Len(rows) |-> start + (i - 1)]
                               ELSE [i \in 1..Len(rows) |-> rows[i][c]]])

InputSeries ==
    { Series(start, rows) :
        start \in Starts, rows \in UNION { [1..n -> RowSet] : n \in 0..MaxRows } }

InitAnalyze ==
    /\ InitCommon
    /\ pc = "call_analyze"
    /\ n_days = 0
    /\ df \in InputSeries
    /\ df_before = df

CallAnalyze ==
    /\ pc = "call_analyze"
    /\ Len(returned) < MaxCalls
    /\ LET a == analyze_air_quality_weather(df)
       IN  /\ df' = a.df
           /\ raised' = a.raised
           /\ returned' =
                IF a.raised = "none"
                THEN Append(returned, [correlation |-> a.correlation,
                                       monthly_pm25 |-> a.monthly_pm25])
                ELSE returned
           /\ pc' = IF a.raised = "none" THEN "call_analyze" ELSE "raised"
    /\ log' = Append(log, "analysis")
    /\ UNCHANGED <<today, resp, requests, real_data, n_days, df_before, fig, csv>>

NextAnalyze == CallAnalyze

SpecAnalyze == InitAnalyze /\ [][NextAnalyze]_vars

----------------------------------------------------------------------------
(* Properties *)

Column(frame, c) == frame.data[c]

\* C1: for every n_days >= 1 the series returned by create_sample_dataset
\* has exactly n_days + 1 observations, each date is one day after the one
\* before it, and the last date is the day of the generation.
C1_ConsecutiveDates ==
    (pc = "returned" /\ n_days >= 1) =>
        /\ df.columns = ColumnNames
        /\ \A c \in Range(ColumnNames) : Len(Column(df, c)) = n_days + 1
        /\ \A i \in 1..n_days : Column(df, "date")[i + 1] = Column(df, "date")[i] + 1
        /\ Column(df, "date")[n_days + 1] = today

C1_Witness ==
    /\ pc = "returned"
    /\ n_days >= 2
    /\ NRows(df) = n_days + 1
    /\ Month(Column(df, "date")[1]) # Month(Column(df, "date")[NRows(df)])

\* C2: create_sample_dataset(n_days) fails with an invalid-argument
\* condition, and returns no series, for every n_days < 1.
C2_FailsBelowOne ==
    (pc \in {"returned", "raised"} /\ n_days < 1) =>
        (pc = "raised" /\ raised = "ValueError" /\ df = NoDf)

\* C3: analyze_air_quality_weather fails with an invalid-argument condition
\* on an empty series instead of returning a matrix and an aggregate.
C3_FailsOnEmpty ==
    (NRows(df_before) = 0 /\ Len(log) > 0) =>
        (pc = "raised" /\ raised = "ValueError" /\ returned = <<>>)

\* C4: analyze_air_quality_weather leaves its input as it was: the same
\* columns and the same rows after the call as before it.
C4_InputUnchanged ==
    returned # <<>> => (df.columns = ColumnNames /\ df = df_before)

\* C5: after a complete run of main the exported file has exactly the header
\* date, pm25, temperature, humidity, wind_speed and one row per observation
\* of the generated series.
C5_ExportHeader ==
    pc = "done" =>
        /\ csv.header = ColumnNames
        /\ Len(csv.rows) = NRows(df_before)
        /\ \A i \in 1..Len(csv.rows) : Len(csv.rows[i]) = Len(ColumnNames)

\* C6: whatever the outcome of the HTTP request, main raises nothing: the
\* run is never ended by an exception.
C6_FetchNeverFatal ==
    resp # NoResp => (pc # "raised" /\ raised = "none")

\* the request failed: a transport exception, a status other than 200, or a
\* status field other than "ok"
Failed(r) ==
    \/ r.kind = "exception"
    \/ r.kind = "response" /\ r.status_code # 200
    \/ r.kind = "response" /\ r.status_code = 200 /\ ~HasGet(r.body)
    \/ r.kind = "response" /\ r.status_code = 200 /\ HasGet(r.body)
         /\ Get(r.body, "status", NoneVal) # Str("ok")

ErrorLines == {"request_failed", "http_error", "api_error"}

\* C7: one call of fetch_air_quality_data makes exactly one HTTP request,
\* no step ever makes a second one, no exception escapes the call, and when
\* the request failed the call returns None after printing a line about it.
C7_FetchOnceAbsence ==
    [][ /\ requests' <= 1
        /\ pc = "main" =>
             /\ requests' = requests + 1
             /\ pc' = "report"
             /\ raised' = "none"
             /\ Failed(resp') =>
                  /\ real_data' = NoneVal
                  /\ Range(log') \cap ErrorLines # {} ]_vars

C7_Witness ==
    /\ pc = "report"
    /\ requests = 1
    /\ resp.kind = "response"
    /\ resp.status_code = 200
    /\ HasGet(resp.body)
    /\ Get(resp.body, "status", NoneVal) = Str("error")
    /\ Get(resp.body, "data", NoneVal) # NoneVal
    /\ real_data = NoneVal
    /\ "api_error" \in Range(log)

\* the rows of frame whose date falls in the month m
RowsOfMonth(frame, m) == {i \in 1..NRows(frame) : Month(Column(frame, "date")[i]) = m}

RECURSIVE SumOver(_, _)
SumOver(f, S) ==
    IF S = {} THEN 0
    ELSE LET i == CHOOSE x \in S : TRUE IN f[i] + SumOver(f, S \ {i})

\* C8: for a non-empty series the keys of the monthly aggregate are exactly
\* the months of its dates, in ascending order, and each value is the
\* arithmetic mean of the pm25 readings of that month.
C8_MonthlyAggregate ==
    (returned # <<>> /\ NRows(df_before) > 0) =>
        LET m == returned[1].monthly_pm25
        IN  /\ Range(m.index) = {Month(d) : d \in Range(Column(df_before, "date"))}
            /\ Range(m.index) \subseteq 1..12
            /\ Len(m.values) = Len(m.index)
            /\ \A j \in 1..(Len(m.index) - 1) : m.index[j] < m.index[j + 1]
            /\ \A j \in 1..Len(m.index) :
                 LET rows == RowsOfMonth(df_before, m.index[j])
                 IN  /\ m.values[j].den > 0
                     /\ m.values[j].num * Cardinality(rows)
                          = SumOver(Column(df_before, "pm25"), rows) * m.values[j].den

C8_Witness ==
    /\ returned # <<>>
    /\ NRows(df_before) = 3
    /\ returned[1].monthly_pm25.index = <<1, 12>>
    /\ returned[1].monthly_pm25.values[1].den = 2

\* C9: every observation of a generated series has 5 <= pm25 <= 80,
\* 30 <= humidity <= 95 and 0.5 <= wind_speed <= 12 (in tenths); its humidity
\* is the clamped 70 - 0.5 * temperature + noise of the temperature of the
\* series, which is itself not clamped.
C9_ClampRanges ==
    pc = "returned" =>
        \A i \in 1..NRows(df) :
            /\ 50 <= Column(df, "pm25")[i] /\ Column(df, "pm25")[i] <= 800
            /\ 300 <= Column(df, "humidity")[i] /\ Column(df, "humidity")[i] <= 950
            /\ 5 <= Column(df, "wind_speed")[i] /\ Column(df, "wind_speed")[i] <= 120
            /\ \E z \in NoiseSet :
                 /\ Column(df, "temperature")[i] = base_temp(i - 1) + z.temperature
                 /\ LET h == 700 - Column(df, "temperature")[i] \div 2 + z.humidity
                    IN  Column(df, "humidity")[i]
                          = IF h < 300 THEN 300 ELSE IF h > 950 THEN 950 ELSE h

C9_Witness ==
    /\ pc = "returned"
    /\ NRows(df) >= 2
    /\ \E i, j \in 1..NRows(df) :
         /\ Column(df, "pm25")[i] = 50
         /\ Column(df, "temperature")[i] < -100
         /\ Column(df, "humidity")[i] = 950
         /\ Column(df, "pm25")[j] = 800
         /\ Column(df, "temperature")[j] > 400
         /\ Column(df, "humidity")[j] = 300
         /\ Column(df, "wind_speed")[j] = 120

\* C10: every later call of analyze_air_quality_weather on the same frame
\* returns the same 4x4 correlation matrix over pm25, temperature, humidity
\* and wind_speed and the same monthly aggregate as the first call.
C10_Idempotent ==
    \A k \in 1..Len(returned) :
        /\ returned[k] = returned[1]
        /\ returned[k].correlation.labels = correlation_cols
        /\ DOMAIN returned[k].correlation.values
             = Range(correlation_cols) \X Range(correlation_cols)

C10_Witness ==
    /\ Len(returned) >= 2
    /\ NRows(df_before) >= 2
    /\ "month" \in Range(df.columns)
    /\ "month" \notin Range(df_before.columns)
    /\ ~returned[2].correlation.values[<<"pm25", "humidity">>].nan

====
